---------------------------- MODULE Spec2Model ----------------------------
(***************************************************************************)
(* Model of the four workflow maintenance scripts                          *)
(*   scripts/maintenance/fix-github-workflows.py                           *)
(*   scripts/fix-all-pnpm-workflows.py                                     *)
(*   scripts/fix-pnpm-workflows.py                                         *)
(*   scripts/update-pnpm-version.py                                        *)
(*                                                                         *)
(* A file's text is a sequence of tokens.  White space is kept character   *)
(* by character (one token per blank, one per newline) because the         *)
(* regular expressions of the scripts count blanks and stop at newlines;   *)
(* every other token is a maximal run of text that the scripts' patterns   *)
(* either match as a whole or not at all.                                  *)
(***************************************************************************)
EXTENDS Naturals, Sequences, FiniteSets

VARIABLES
    dirExists,   \* .github/workflows exists
    listing,     \* the *.yml entries, in the order the directory listing yields them
    files,       \* file name -> text
    baks,        \* file name -> text of the sibling .bak file, or NoBak
    pc,          \* "idle" or "running" (inside main's loop)
    script,      \* the script that runs, or ran last
    queue,       \* files main has still to process
    report,      \* per-file report lines of the current / last run
    exitStatus,  \* exit status of the last finished run (0, 1), 2 before any run
    summary,     \* the last finished run printed its completion summary
    errorMsg,    \* the last finished run printed an error message
    runs,        \* number of runs started
    hist         \* file name -> what happened the last time a script processed it:
                 \* the run, the script, the text read (before), the text the
                 \* insertion rule inspected, the text produced by the rules, the
                 \* text of the file afterwards, and what was written and reported

vars == <<dirExists, listing, files, baks, pc, script, queue, report,
          exitStatus, summary, errorMsg, runs, hist>>

-----------------------------------------------------------------------------
(* Bounds *)

MaxSteps == 2      \* workflow steps in a generated file
MaxRuns == 3       \* script runs in one behaviour

-----------------------------------------------------------------------------
(* Text *)

NL == "\n"
SP == " "

IsSpace(t) == t \in {SP, NL}

Ind(n) == [i \in 1..n |-> SP]

Range(s) == {s[i] : i \in 1..Len(s)}

\* number of tokens of text c that lie in the token set S
Count(c, S) == Cardinality({i \in 1..Len(c) : c[i] \in S})

CACHE_NPM == "cache: 'npm'"
CACHE_PNPM == "cache: 'pnpm'"
RUN_NPM_CI == "run: npm ci"
RUN_NPM_INSTALL == "run: npm install"
RUN_PNPM_FROZEN == "run: pnpm install --frozen-lockfile"
RUN_PNPM_INSTALL == "run: pnpm install"
USES_PNPM_V4 == "uses: pnpm/action-setup@v4"
USES_PNPM_V2 == "uses: pnpm/action-setup@v2"
USES_NODE_V4 == "uses: actions/setup-node@v4"
NAME_NODE == "- name: Setup Node.js"
NAME_NODE_DECORATED == "- name: Run Setup Node.js"

\* 'pnpm/action-setup' in content
ActionSetupTokens == {USES_PNPM_V4, USES_PNPM_V2}

SubToken(c, from, to) == [i \in 1..Len(c) |-> IF c[i] = from THEN to ELSE c[i]]

\* '$' under re.MULTILINE: end of text or just before a newline
AtEol(c, i) == i = Len(c) \/ c[i + 1] = NL

SubTokenEol(c, from, to) ==
    [i \in 1..Len(c) |-> IF c[i] = from /\ AtEol(c, i) THEN to ELSE c[i]]

\* first index of the maximal white-space run that ends at index i
RECURSIVE RunStart(_, _)
RunStart(c, i) == IF i > 1 /\ IsSpace(c[i - 1]) THEN RunStart(c, i - 1) ELSE i

\* index following the maximal white-space run that starts at index i
RECURSIVE RunEnd(_, _)
RunEnd(c, i) == IF i <= Len(c) /\ IsSpace(c[i]) THEN RunEnd(c, i + 1) ELSE i

\* index of the first newline at or after index i, Len(c) + 1 if none
RECURSIVE NextNL(_, _)
NextNL(c, i) == IF i <= Len(c) /\ c[i] # NL THEN NextNL(c, i + 1) ELSE i

Min(S) == CHOOSE x \in S : \A y \in S : x <= y

Max(S) == CHOOSE x \in S : \A y \in S : x >= y


-----------------------------------------------------------------------------
(* scripts/maintenance/fix-github-workflows.py *)

\* the block inserted by fix-github-workflows.py; it ends with a blank line
PNPM_SETUP ==
    Ind(6) \o <<"- name: Install pnpm", NL>> \o
    Ind(8) \o <<USES_PNPM_V4, NL>> \o
    Ind(8) \o <<"with:", NL>> \o
    Ind(10) \o <<"version:", SP, "9", NL>> \o
    <<NL>>

\* a check that never finds the setup step
has_pnpm_setup_never(content) == FALSE

has_pnpm_setup(content) == \E i \in 1..Len(content) : content[i] \in ActionSetupTokens

\* a gate that lets every workflow through
needs_pnpm_setup_always(content) == TRUE

needs_pnpm_setup(content) ==
    \/ \E i \in 1..Len(content) : content[i] = CACHE_NPM
    \/ \E i \in 1..Len(content) : content[i] = RUN_NPM_CI
    \/ \E i \in 1..Len(content) : content[i] = RUN_NPM_INSTALL

\* tokens that begin with "uses: actions/setup-node@"
SetupNodeUses == {USES_NODE_V4}

\* indices k of a "- name: Setup Node.js" token at which
\*   \s+- name: Setup Node\.js[^\n]*\n\s+uses: actions/setup-node@
\* matches: white space before it, the rest of its line, then white space and
\* the uses: line of actions/setup-node
SetupNodeAnchors(content) ==
    {k \in 2..Len(content) :
        /\ content[k] = NAME_NODE
        /\ IsSpace(content[k - 1])
        /\ LET j == NextNL(content, k + 1)
               m == RunEnd(content, j + 1)
           IN  /\ j <= Len(content)
               /\ m > j + 1
               /\ m <= Len(content)
               /\ content[m] \in SetupNodeUses}

\* match.start() of the leftmost match: \s+ is greedy and starts at the first
\* character of the white-space run before the name, newlines included
SetupNodeMatchStart(content) == RunStart(content, Min(SetupNodeAnchors(content)) - 1)

add_pnpm_setup(content) ==
    IF SetupNodeAnchors(content) = {}
    THEN [content |-> content, warning |-> TRUE]
    ELSE LET pos == SetupNodeMatchStart(content)
         IN  [content |-> SubSeq(content, 1, pos - 1) \o PNPM_SETUP
                          \o SubSeq(content, pos, Len(content)),
              warning |-> FALSE]

\* the result of fix_workflow on the text read: the text it ends with, the
\* text has_pnpm_setup was asked about, whether it wrote the file and the
\* backup, what it returned, what it printed
fix_workflow(original_content) ==
    IF ~needs_pnpm_setup(original_content)
    THEN [content |-> original_content, inspected |-> original_content,
          wrote |-> FALSE, bak |-> FALSE,
          changed |-> FALSE, changes |-> <<>>, warning |-> FALSE]
    ELSE LET m1 == \E i \in 1..Len(original_content) : original_content[i] = CACHE_NPM
             c1 == IF m1 THEN SubToken(original_content, CACHE_NPM, CACHE_PNPM)
                         ELSE original_content
             m2 == \E i \in 1..Len(c1) : c1[i] = RUN_NPM_CI
             c2 == IF m2 THEN SubTokenEol(c1, RUN_NPM_CI, RUN_PNPM_FROZEN) ELSE c1
             m3 == \E i \in 1..Len(c2) : c2[i] = RUN_NPM_INSTALL /\ AtEol(c2, i)
             c3 == IF m3 THEN SubTokenEol(c2, RUN_NPM_INSTALL, RUN_PNPM_INSTALL) ELSE c2
             m4 == ~has_pnpm_setup(c3)
             a4 == IF m4 THEN add_pnpm_setup(c3) ELSE [content |-> c3, warning |-> FALSE]
             modified == m1 \/ m2 \/ m3 \/ m4
         IN  [content |-> a4.content, inspected |-> c3,
              wrote |-> modified, bak |-> modified,
              changed |-> modified, changes |-> <<>>, warning |-> a4.warning]

-----------------------------------------------------------------------------
(* scripts/fix-all-pnpm-workflows.py and scripts/update-pnpm-version.py *)

\* indices v of a "version:" token that ends group 1 of
\*   (<uses>\s+with:\s+version:)\s*<digit>
\* where <uses> is a token of usesTokens and <digit> the token that follows
\* the white space after "version:"
VersionMatches(content, usesTokens, digit) ==
    {v \in 1..Len(content) :
        /\ content[v] = "version:"
        /\ v > 1 /\ IsSpace(content[v - 1])
        /\ LET w == RunStart(content, v - 1) - 1
           IN  /\ w > 1
               /\ content[w] = "with:"
               /\ IsSpace(content[w - 1])
               /\ LET u == RunStart(content, w - 1) - 1
                  IN  u >= 1 /\ content[u] \in usesTokens
        /\ LET d == RunEnd(content, v + 1)
           IN  d <= Len(content) /\ content[d] = digit}

\* re.sub(pattern, r'\1 10', content): in each match the white space after
\* "version:" and the digit become one blank and "10"; what follows the digit
\* stays.  The matches are rewritten from the last to the first, so that the
\* indices of the earlier ones stay valid.
RECURSIVE SubVersion(_, _)
SubVersion(content, matches) ==
    IF matches = {} THEN content
    ELSE LET v == Max(matches)
             d == RunEnd(content, v + 1)
         IN  SubVersion(SubSeq(content, 1, v) \o <<SP, "10">>
                        \o SubSeq(content, d + 1, Len(content)),
                        matches \ {v})

\* a pattern that asks for pnpm/action-setup@v4
ActionSetupOnlyV4 == {USES_PNPM_V4}

\* pnpm/action-setup@v\d+
ActionSetupAnyVersion == {USES_PNPM_V4, USES_PNPM_V2}

fix_all_fix_workflow_file(original_content) ==
    LET n1 == Count(original_content, {USES_PNPM_V4})
        c1 == IF n1 > 0 THEN SubToken(original_content, USES_PNPM_V4, USES_PNPM_V2)
                        ELSE original_content
        ch1 == IF n1 > 0 THEN <<[rule |-> "v4 -> v2", count |-> n1]>> ELSE <<>>
        ms == VersionMatches(c1, ActionSetupAnyVersion, "9")
        c2 == IF ms # {} THEN SubVersion(c1, ms) ELSE c1
        n2 == Cardinality(VersionMatches(original_content, ActionSetupAnyVersion, "9"))
        ch2 == IF ms # {} THEN <<[rule |-> "9 -> 10", count |-> n2]>> ELSE <<>>
        differs == c2 # original_content
    IN  [content |-> c2, inspected |-> original_content,
         wrote |-> differs, bak |-> FALSE, changed |-> differs,
         changes |-> IF differs THEN ch1 \o ch2 ELSE <<>>, warning |-> FALSE]

update_pnpm_version(original_content) ==
    LET ms == VersionMatches(original_content, {USES_PNPM_V2}, "8")
        new_content == SubVersion(original_content, ms)
        differs == new_content # original_content
    IN  [content |-> new_content, inspected |-> original_content,
         wrote |-> differs, bak |-> FALSE, changed |-> differs,
         changes |-> IF differs THEN <<[rule |-> "8 -> 10", count |-> Cardinality(ms)]>>
                                ELSE <<>>,
         warning |-> FALSE]

-----------------------------------------------------------------------------
(* scripts/fix-pnpm-workflows.py *)

\* the block inserted by fix-pnpm-workflows.py; it ends with a blank line
PNPM_SETUP_V2 ==
    Ind(6) \o <<"- name: Setup pnpm", NL>> \o
    Ind(8) \o <<USES_PNPM_V2, NL>> \o
    Ind(8) \o <<"with:", NL>> \o
    Ind(10) \o <<"version:", SP, "8", NL>> \o
    <<NL>>

\* "- name: " tokens with at least one character before "Setup Node"
DecoratedNodeNames == {NAME_NODE_DECORATED}

AllBlank(content, from, to) == \A i \in from..to : i >= 1 /\ i <= Len(content) /\ content[i] = SP

\* indices at which a match of
\*   [ ]{6}- name: [^\n]+Setup Node[^\n]*\n[ ]{8}uses: actions/setup-node@v4
\* starts: six blanks, the name, the rest of its line, eight blanks, the uses:
SetupNodeV4Starts(content) ==
    {s \in 1..Len(content) :
        /\ s + 6 <= Len(content)
        /\ AllBlank(content, s, s + 5)
        /\ content[s + 6] \in DecoratedNodeNames
        /\ LET j == NextNL(content, s + 7)
           IN  /\ j + 9 <= Len(content)
               /\ AllBlank(content, j + 1, j + 8)
               /\ content[j + 9] = USES_NODE_V4}

\* re.subn(pattern, replacement, content): the block goes in front of each
\* match, here from the last match to the first
RECURSIVE InsertBefore(_, _, _)
InsertBefore(content, starts, block) ==
    IF starts = {} THEN content
    ELSE LET s == Max(starts)
         IN  InsertBefore(SubSeq(content, 1, s - 1) \o block
                          \o SubSeq(content, s, Len(content)),
                          starts \ {s}, block)

fix_pnpm_fix_workflow_file(content) ==
    IF \E i \in 1..Len(content) : content[i] \in ActionSetupTokens
    THEN [content |-> content, inspected |-> content,
          wrote |-> FALSE, bak |-> FALSE, changed |-> FALSE,
          changes |-> <<>>, warning |-> FALSE]
    ELSE LET starts == SetupNodeV4Starts(content)
             count == Cardinality(starts)
             new_content == InsertBefore(content, starts, PNPM_SETUP_V2)
         IN  [content |-> new_content, inspected |-> content,
              wrote |-> count > 0, bak |-> FALSE,
              changed |-> count > 0,
              changes |-> IF count > 0 THEN <<[rule |-> "added pnpm setup", count |-> count]>>
                                       ELSE <<>>,
              warning |-> FALSE]

-----------------------------------------------------------------------------
(* Workflow files the model starts from *)

Names == <<"a.yml", "b.yml">>

NoBak == <<"<no .bak file>">>

PnpmStep(uses, value) ==
    Ind(6) \o <<"- name: Install pnpm", NL>> \o
    Ind(8) \o <<uses, NL>> \o
    Ind(8) \o <<"with:", NL>> \o
    Ind(10) \o <<"version:", SP>> \o value \o <<NL>>

NodeStep(name, option) ==
    Ind(6) \o <<name, NL>> \o
    Ind(8) \o <<USES_NODE_V4, NL>> \o
    (IF option = <<>> THEN <<>>
     ELSE Ind(8) \o <<"with:", NL>> \o Ind(10) \o option \o <<NL>>)

RunStep(command) == Ind(6) \o <<"- ">> \o command \o <<NL>>

Steps ==
    { PnpmStep(USES_PNPM_V4, <<"9">>),
      PnpmStep(USES_PNPM_V4, <<"9", ".1.0">>),
      PnpmStep(USES_PNPM_V2, <<"8">>),
      NodeStep(NAME_NODE, <<>>),
      NodeStep(NAME_NODE, <<CACHE_NPM>>),
      NodeStep(NAME_NODE, <<"version:", SP, "9">>),
      NodeStep(NAME_NODE_DECORATED, <<>>),
      NodeStep(NAME_NODE_DECORATED, <<CACHE_PNPM>>),
      RunStep(<<RUN_NPM_CI>>),
      RunStep(<<RUN_NPM_CI, SP, "--prefer-offline">>),
      RunStep(<<RUN_NPM_INSTALL>>),
      RunStep(<<RUN_NPM_INSTALL, SP, "-g", SP, "pnpm">>),
      RunStep(<<RUN_PNPM_FROZEN>>) }

RECURSIVE Concat(_)
Concat(ss) == IF ss = <<>> THEN <<>> ELSE Head(ss) \o Concat(Tail(ss))

\* a job's "steps:" line followed by the given steps
Workflow(ss) == <<"steps:", NL>> \o Concat(ss)

Workflows == {Workflow(ss) : ss \in UNION {[1..n -> Steps] : n \in 0..MaxSteps}}

\* the files of a directory that holds more than one workflow
SmallWorkflows ==
    { Workflow(<<NodeStep(NAME_NODE, <<CACHE_NPM>>)>>),
      Workflow(<<NodeStep(NAME_NODE_DECORATED, <<CACHE_PNPM>>)>>),
      Workflow(<<PnpmStep(USES_PNPM_V4, <<"9">>)>>) }

NoHist ==
    [run |-> 0, script |-> "none", before |-> <<>>, inspected |-> <<>>,
     produced |-> <<>>, after |-> <<>>, wrote |-> FALSE,
     bak |-> FALSE, changed |-> FALSE, changes |-> <<>>]

InitCommon ==
    /\ baks = [n \in Range(Names) |-> NoBak]
    /\ pc = "idle"
    /\ script = "none"
    /\ queue = <<>>
    /\ report = <<>>
    /\ exitStatus = "none"
    /\ summary = FALSE
    /\ errorMsg = FALSE
    /\ runs = 0
    /\ hist = [n \in Range(Names) |-> NoHist]

Init ==
    /\ InitCommon
    /\ \/ /\ dirExists = FALSE
          /\ listing = <<>>
          /\ files = [n \in Range(Names) |-> <<>>]
       \/ /\ dirExists = TRUE
          /\ listing = <<Names[1]>>
          /\ \E w \in Workflows : files = [n \in Range(Names) |-> IF n = Names[1] THEN w ELSE <<>>]
       \/ /\ dirExists = TRUE
          /\ listing \in {<<Names[1], Names[2]>>, <<Names[2], Names[1]>>}
          /\ files \in [Range(Names) -> SmallWorkflows]

-----------------------------------------------------------------------------
(* The runs *)

GITHUB == "fix-github-workflows"
FIX_ALL == "fix-all-pnpm-workflows"
FIX_PNPM == "fix-pnpm-workflows"
UPDATE == "update-pnpm-version"

\* Path.glob('*.yml'): the entries in listing order; nothing if the directory is missing
Glob == IF dirExists THEN listing ELSE <<>>

\* sorted(paths)
Sorted(paths) == SelectSeq(Names, LAMBDA n : n \in Range(paths))

\* the paths whose text holds a token of the set, in the order given
Using(paths, tokens) ==
    SelectSeq(paths, LAMBDA n : \E i \in 1..Len(files[n]) : files[n][i] \in tokens)

Begin(s, found) ==
    /\ pc = "idle"
    /\ runs < MaxRuns
    /\ runs' = runs + 1
    /\ script' = s
    /\ queue' = found
    /\ report' = <<>>
    /\ pc' = "running"
    /\ exitStatus' = "none"
    /\ summary' = FALSE
    /\ errorMsg' = FALSE
    /\ UNCHANGED <<dirExists, listing, files, baks, hist>>

\* sys.exit(1) of fix-github-workflows.py
Abort(s) ==
    /\ pc = "idle"
    /\ runs < MaxRuns
    /\ runs' = runs + 1
    /\ script' = s
    /\ queue' = <<>>
    /\ report' = <<>>
    /\ pc' = "idle"
    /\ exitStatus' = "1"
    /\ summary' = FALSE
    /\ errorMsg' = TRUE
    /\ UNCHANGED <<dirExists, listing, files, baks, hist>>

\* one turn of main's loop: the file is read, fixed, written and reported
Process(s, r) ==
    LET f == Head(queue) IN
    /\ files' = IF r.wrote THEN [files EXCEPT ![f] = r.content] ELSE files
    /\ baks' = IF r.bak THEN [baks EXCEPT ![f] = files[f]] ELSE baks
    /\ report' = Append(report, [file |-> f, changed |-> r.changed,
                                 changes |-> r.changes, warning |-> r.warning])
    /\ hist' = [hist EXCEPT ![f] =
                   [run |-> runs, script |-> s, before |-> files[f],
                    inspected |-> r.inspected, produced |-> r.content,
                    after |-> IF r.wrote THEN r.content ELSE files[f],
                    wrote |-> r.wrote, bak |-> r.bak, changed |-> r.changed,
                    changes |-> r.changes]]
    /\ queue' = Tail(queue)
    /\ UNCHANGED <<dirExists, listing, pc, script, exitStatus, summary, errorMsg, runs>>

MainGithub ==
    IF dirExists THEN Begin(GITHUB, Sorted(Glob)) ELSE Abort(GITHUB)

MainFixAll == Begin(FIX_ALL, Sorted(Glob))

MainFixPnpm == Begin(FIX_PNPM, Using(Glob, {CACHE_PNPM}))

MainUpdate == Begin(UPDATE, Using(Glob, ActionSetupTokens))

LoopGithub ==
    /\ pc = "running" /\ script = GITHUB /\ queue # <<>>
    /\ Process(GITHUB, fix_workflow(files[Head(queue)]))

LoopFixAll ==
    /\ pc = "running" /\ script = FIX_ALL /\ queue # <<>>
    /\ Process(FIX_ALL, fix_all_fix_workflow_file(files[Head(queue)]))

LoopFixPnpm ==
    /\ pc = "running" /\ script = FIX_PNPM /\ queue # <<>>
    /\ Process(FIX_PNPM, fix_pnpm_fix_workflow_file(files[Head(queue)]))

LoopUpdate ==
    /\ pc = "running" /\ script = UPDATE /\ queue # <<>>
    /\ Process(UPDATE, update_pnpm_version(files[Head(queue)]))

\* the summary after the loop; the script ends normally
Finish ==
    /\ pc = "running" /\ queue = <<>>
    /\ pc' = "idle"
    /\ exitStatus' = "0"
    /\ summary' = TRUE
    /\ UNCHANGED <<dirExists, listing, files, baks, script, queue, report, errorMsg,
                   runs, hist>>

Next ==
    \/ MainGithub
    \/ MainFixAll
    \/ MainFixPnpm
    \/ MainUpdate
    \/ LoopGithub
    \/ LoopFixAll
    \/ LoopFixPnpm
    \/ LoopUpdate
    \/ Finish

Spec == Init /\ [][Next]_vars

-----------------------------------------------------------------------------
(* Properties *)

Processed(n) == hist[n].run >= 1

HasToken(c, S) == \E i \in 1..Len(c) : c[i] \in S

\* the index is the first of its line
LineStart(c, p) == p = 1 \/ c[p - 1] = NL

\* a "version:" token that follows a pnpm/action-setup reference and its with:
InSetupContext(c, v) ==
    /\ v > 1 /\ IsSpace(c[v - 1])
    /\ LET w == RunStart(c, v - 1) - 1
       IN  /\ w > 1 /\ c[w] = "with:" /\ IsSpace(c[w - 1])
           /\ LET u == RunStart(c, w - 1) - 1
              IN  u >= 1 /\ c[u] \in {USES_PNPM_V4, USES_PNPM_V2}

\* the indices of the "version:" tokens, in order
VersionIndices(c) == SelectSeq([i \in 1..Len(c) |-> i], LAMBDA i : c[i] = "version:")

\* the value of the "version:" token at index v: the text up to the next white space
VersionValue(c, v) ==
    LET d == RunEnd(c, v + 1)
        e == Min({k \in d..(Len(c) + 1) : k = Len(c) + 1 \/ IsSpace(c[k])})
    IN  SubSeq(c, d, e - 1)

\* C1: a second run of a script right after a first run of the same script
\* leaves the file as the first run left it and reports it as not changed.
C1_Idempotent ==
    [][\A n \in Range(Names) :
          (hist[n].run >= 1 /\ hist'[n].run = hist[n].run + 1
           /\ hist'[n].script = hist[n].script)
          => (hist'[n].after = hist[n].after /\ ~hist'[n].changed)]_vars

\* C2: a run writes the file, writes the .bak backup (fix-github-workflows only)
\* and reports the file as changed exactly when the text the rules produced
\* differs from the text read.
C2_PersistIffDiffers ==
    \A n \in Range(Names) :
        Processed(n) =>
            LET h == hist[n]
                differs == h.produced # h.before
            IN  /\ h.wrote <=> differs
                /\ h.changed <=> differs
                /\ h.bak <=> (differs /\ h.script = GITHUB)

\* the line starts p of text c at which a Node-setup step's "- name:" line begins
NodeNameLines(c) ==
    {p \in 1..Len(c) :
        /\ LineStart(c, p)
        /\ LET k == RunEnd(c, p)
           IN  k <= Len(c) /\ c[k] \in {NAME_NODE, NAME_NODE_DECORATED}}

\* C3: an inserted pnpm setup block stands at the start of the line of the
\* Node-setup step's "- name:": the text before that line is kept to its last
\* newline, the block begins a line, and the Node-setup step follows it
\* unchanged.  A file with cache: 'npm' and run: npm ci and no pnpm setup ends
\* with cache: 'pnpm', run: pnpm install --frozen-lockfile and the block.
C3_InsertAtLineStart ==
    \A n \in Range(Names) :
        (Processed(n) /\ hist[n].script \in {GITHUB, FIX_PNPM}) =>
            LET h == hist[n]
                block == IF h.script = GITHUB THEN PNPM_SETUP ELSE PNPM_SETUP_V2
            IN  /\ h.produced # h.inspected =>
                      \E P \in SUBSET NodeNameLines(h.inspected) :
                          P # {} /\ h.produced = InsertBefore(h.inspected, P, block)
                /\ ( /\ h.script = GITHUB
                     /\ HasToken(h.before, {CACHE_NPM})
                     /\ \E i \in 1..Len(h.before) :
                            h.before[i] = RUN_NPM_CI /\ AtEol(h.before, i)
                     /\ ~HasToken(h.before, {USES_PNPM_V4, USES_PNPM_V2})
                     /\ \E p \in NodeNameLines(h.before) :
                            h.before[RunEnd(h.before, p)] = NAME_NODE )
                   => /\ HasToken(h.after, {CACHE_PNPM})
                      /\ HasToken(h.after, {RUN_PNPM_FROZEN})
                      /\ \E p \in NodeNameLines(h.after) :
                             /\ p > Len(PNPM_SETUP)
                             /\ LineStart(h.after, p - Len(PNPM_SETUP))
                             /\ SubSeq(h.after, p - Len(PNPM_SETUP), p - 1) = PNPM_SETUP

\* the file lacks the substring that gates the script's rewrite
LacksPrecondition(s, c) ==
    \/ s = GITHUB /\ ~HasToken(c, {CACHE_NPM, RUN_NPM_CI, RUN_NPM_INSTALL})
    \/ s = FIX_PNPM /\ ~HasToken(c, {CACHE_PNPM})
    \/ s = UPDATE /\ ~HasToken(c, {USES_PNPM_V4, USES_PNPM_V2})

\* C4: no step of a run changes a file that lacks the precondition substring of
\* the running script, nor writes a backup for it.
C4_GatedRewrite ==
    [][\A n \in Range(Names) :
          LacksPrecondition(script', files[n])
          => /\ files'[n] = files[n] /\ baks'[n] = baks[n]
             /\ hist'[n] # hist[n] => (~hist'[n].wrote /\ ~hist'[n].bak)]_vars

\* fix-github-workflows has processed a file without npm directives that holds
\* a Setup Node.js step and no pnpm setup, and left it alone
C4_Witness ==
    \E n \in Range(Names) :
        /\ Processed(n) /\ hist[n].script = GITHUB
        /\ LacksPrecondition(GITHUB, hist[n].before)
        /\ SetupNodeAnchors(hist[n].before) # {}
        /\ ~HasToken(hist[n].before, {USES_PNPM_V4, USES_PNPM_V2})
        /\ files[n] = hist[n].before /\ baks[n] = NoBak

\* C5: in every run of fix-github-workflows and fix-pnpm-workflows, a block is
\* inserted only into a text that holds no pnpm/action-setup.
C5_InsertionGuard ==
    \A n \in Range(Names) :
        (/\ Processed(n)
         /\ hist[n].script \in {GITHUB, FIX_PNPM}
         /\ hist[n].produced # hist[n].inspected)
        => ~HasToken(hist[n].inspected, {USES_PNPM_V4, USES_PNPM_V2})

\* in a second or later run, fix-github-workflows has rewritten a file that
\* holds pnpm/action-setup and a matching Setup Node.js step, and inserted nothing
C5_Witness ==
    \E n \in Range(Names) :
        /\ hist[n].run >= 2 /\ hist[n].script = GITHUB
        /\ HasToken(hist[n].inspected, {USES_PNPM_V4, USES_PNPM_V2})
        /\ SetupNodeAnchors(hist[n].inspected) # {}
        /\ hist[n].inspected # hist[n].before
        /\ hist[n].produced = hist[n].inspected

\* the literal rules A -> B of a script
LiteralRules(s) ==
    IF s = GITHUB THEN {<<CACHE_NPM, CACHE_PNPM>>, <<RUN_NPM_CI, RUN_PNPM_FROZEN>>}
    ELSE IF s = FIX_ALL THEN {<<USES_PNPM_V4, USES_PNPM_V2>>}
    ELSE {}

\* C6: after a script's literal rule A -> B has run on a text with k
\* occurrences of A, the k occurrences have become B (the text holds k more B)
\* and no A is left.
C6_LiteralSubstitution ==
    \A n \in Range(Names) :
        Processed(n)
        => \A rule \in LiteralRules(hist[n].script) :
              LET k == Count(hist[n].before, {rule[1]})
              IN  /\ Count(hist[n].produced, {rule[1]}) = 0
                  /\ Count(hist[n].produced, {rule[2]})
                       = Count(hist[n].before, {rule[2]}) + k

\* C7: the version bump (9 in fix-all-pnpm-workflows, 8 in update-pnpm-version)
\* changes a version: value only if the value is that number and follows a
\* pnpm/action-setup with: anchor; every other value is left as it was.
C7_ContextualSubstitution ==
    \A n \in Range(Names) :
        (Processed(n) /\ hist[n].script \in {FIX_ALL, UPDATE}) =>
            LET h == hist[n]
                target == IF h.script = FIX_ALL THEN "9" ELSE "8"
                vb == VersionIndices(h.before)
                va == VersionIndices(h.produced)
            IN  /\ Len(va) = Len(vb)
                /\ \A j \in 1..Len(vb) :
                      VersionValue(h.produced, va[j]) # VersionValue(h.before, vb[j])
                      => /\ VersionValue(h.before, vb[j]) = <<target>>
                         /\ InSetupContext(h.before, vb[j])

\* the file holds one uses: pnpm/action-setup@v4, followed by with: and
\* version: 9, and no other version: 9 in a pnpm/action-setup step
C8_Scenario(c) ==
    /\ Count(c, {USES_PNPM_V4}) = 1
    /\ \E v \in 1..Len(c) :
          /\ c[v] = "version:" /\ InSetupContext(c, v)
          /\ c[RunStart(c, RunStart(c, v - 1) - 2) - 1] = USES_PNPM_V4
          /\ VersionValue(c, v) = <<"9">>
          /\ \A x \in 1..Len(c) :
                (c[x] = "version:" /\ InSetupContext(c, x) /\ x # v)
                => Head(VersionValue(c, x) \o <<"">>) # "9"

HasVersion10(c) ==
    \E v \in 1..Len(c) :
        c[v] = "version:" /\ InSetupContext(c, v) /\ VersionValue(c, v) = <<"10">>

\* C8 as stated: after fix-all-pnpm-workflows the file of the scenario holds
\* uses: pnpm/action-setup@v4 and version: 10, and the run reports the
\* 9 -> 10 change with a count of 1.
C8_KeepsV4 ==
    \A n \in Range(Names) :
        (Processed(n) /\ hist[n].script = FIX_ALL /\ C8_Scenario(hist[n].before))
        => /\ HasToken(hist[n].after, {USES_PNPM_V4})
           /\ HasVersion10(hist[n].after)
           /\ \E j \in 1..Len(hist[n].changes) :
                  hist[n].changes[j] = [rule |-> "9 -> 10", count |-> 1]

\* C8 amended: after fix-all-pnpm-workflows the file of the scenario holds
\* uses: pnpm/action-setup@v2 in place of @v4, and version: 10; the run
\* reports the v4 -> v2 change and then the 9 -> 10 change, each with a count of 1.
C8_VersionBump ==
    \A n \in Range(Names) :
        (Processed(n) /\ hist[n].script = FIX_ALL /\ C8_Scenario(hist[n].before))
        => /\ HasToken(hist[n].after, {USES_PNPM_V2})
           /\ ~HasToken(hist[n].after, {USES_PNPM_V4})
           /\ HasVersion10(hist[n].after)
           /\ hist[n].wrote /\ hist[n].changed
           /\ hist[n].changes = << [rule |-> "v4 -> v2", count |-> 1],
                                   [rule |-> "9 -> 10", count |-> 1] >>

\* fix-all-pnpm-workflows has run on a file of the scenario
C8_Witness ==
    \E n \in Range(Names) :
        /\ Processed(n) /\ hist[n].script = FIX_ALL /\ C8_Scenario(hist[n].before)
        /\ files[n] = hist[n].produced

\* C9: a run without the workflows directory ends with a non-zero exit status
\* and an error message, having processed no file and printed no summary.
C9_MissingDirectoryAborts ==
    (~dirExists /\ runs >= 1 /\ pc = "idle")
    => (exitStatus = "1" /\ errorMsg /\ ~summary /\ report = <<>>)

\* C10: the report lines of a run come in file-name order, whatever the order
\* of the directory listing.
C10_SortedReport ==
    LET reported == [i \in 1..Len(report) |-> report[i].file]
    IN  reported = Sorted(reported)

=============================================================================
